---- MODULE Spec2Model ----
(***************************************************************************)
(* Model of the tour build script (tools/build_tour_levelc.js): scene      *)
(* table loader, dead-reckoning positioner, grid snap and graph builder    *)
(* (sequential + manual + proximity - blocked).                            *)
(*                                                                         *)
(* Representation.  CSV cells are sequences of one-character strings, so   *)
(* that Number(), toUpperCase() and the heading regexp act on characters.  *)
(* JS Numbers are fixed-point integers: coordinates are thousandths of a   *)
(* metre (Milli), headings are whole degrees, step lengths whole metres.   *)
(* A value that may be NaN or null is a sequence: <<>> for NaN / null and  *)
(* <<n>> for the number n.  Binary rounding is not represented: sin and    *)
(* cos of a multiple of 90 degrees are exactly 0 or +-1, so a snapped      *)
(* coordinate is the JS value -0 only when the fixed-point sum is negative *)
(* and rounds to zero.  Scene ids are distinct decimal digit strings.      *)
(* proxLog records, per pass of the proximity loop, the loop's locals      *)
(* bestByBucket, winners and the winners that were inserted.               *)
(***************************************************************************)
EXTENDS Integers, Sequences, FiniteSets, TLC

VARIABLES pc, rows, scenes, edgesCsv, i, x, y, nodes, nodesCsv,
          neigh, manualEdges, blockedEdges, k, proxLog, sv, sstep, sr,
          tourK, cfgLog, scenesObj, tourJson,
          mainPc, mmFetch, navFetch, handlers, viewerScene, marker,
          mmData, navData, queried, served

\* stages 1 to 3 of the build script
buildVars == <<pc, rows, scenes, edgesCsv, i, x, y, nodes, nodesCsv,
               neigh, manualEdges, blockedEdges, k, proxLog, sv, sstep, sr>>

\* the tour stage of the build script
tourVars == <<tourK, cfgLog, scenesObj, tourJson>>

\* the browser runtime (app.js, minimap.js, nav3d)
webVars == <<mainPc, mmFetch, navFetch, handlers, viewerScene, marker,
             mmData, navData, queried, served>>

vars == <<pc, rows, scenes, edgesCsv, i, x, y, nodes, nodesCsv,
          neigh, manualEdges, blockedEdges, k, proxLog, sv, sstep, sr,
          tourVars, webVars>>

(* ------------------------------ bounds ------------------------------ *)
MaxScenes == 3
MaxEdges == 1
MaxSnap == 12500

(* ------------------------- program constants ------------------------ *)
DEFAULT_STEP_METERS == 5
LINK_RADIUS == 7
TURN_TOL == 30
MAX_PROX_LINKS_PER_NODE == 4
REQUIRE_RECIPROCAL == TRUE
SNAP_HOTSPOT_YAW == TRUE
GRID_STEP == 5
Milli == 1000

NaN == <<>>
Null == <<>>
Num(n) == <<n>>
isFinite(v) == v # NaN

(* ---------------------------- arithmetic ---------------------------- *)
Abs(n) == IF n < 0 THEN -n ELSE n

\* JS % : the remainder takes the sign of the dividend
JsMod(a, b) == IF a >= 0 THEN a % b ELSE -((-a) % b)

\* Math.floor(n / d) and Math.ceil(n / d) for d > 0
FloorDiv(n, d) == n \div d
CeilDiv(n, d) == -((-n) \div d)

normalize180(deg) ==
  LET d == JsMod(JsMod(deg + 180, 360) + 360, 360) - 180
  IN IF d = -180 THEN 180 ELSE d

(* ------------------------------ tokens ------------------------------ *)
Digits == {"0", "1", "2", "3", "4", "5", "6", "7", "8", "9"}

DigitVal(c) ==
  CASE c = "0" -> 0 [] c = "1" -> 1 [] c = "2" -> 2 [] c = "3" -> 3
    [] c = "4" -> 4 [] c = "5" -> 5 [] c = "6" -> 6 [] c = "7" -> 7
    [] c = "8" -> 8 [] c = "9" -> 9

RECURSIVE DigitsVal(_)
DigitsVal(s) ==
  IF s = <<>> THEN 0
  ELSE 10 * DigitsVal(SubSeq(s, 1, Len(s) - 1)) + DigitVal(s[Len(s)])

IsDigits(s) == Len(s) > 0 /\ \A j \in 1..Len(s) : s[j] \in Digits

\* /^-?\d+$/ : the integer form of the heading pattern /^-?\d+(\.\d+)?$/
IsNumeric(s) ==
  IF Len(s) > 0 /\ s[1] = "-" THEN IsDigits(Tail(s)) ELSE IsDigits(s)

\* Number(v) on a trimmed cell: "" is 0, a decimal integer is its value
Number(s) ==
  IF s = <<>> THEN Num(0)
  ELSE IF IsDigits(s) THEN Num(DigitsVal(s))
  ELSE IF s[1] = "-" /\ IsDigits(Tail(s)) THEN Num(-DigitsVal(Tail(s)))
  ELSE NaN

toNum(v, f) == LET n == Number(v) IN IF isFinite(n) THEN n[1] ELSE f

UpperChar(c) ==
  CASE c = "n" -> "N" [] c = "e" -> "E" [] c = "s" -> "S" [] c = "w" -> "W"
    [] c = "t" -> "T" [] c = "y" -> "Y" [] c = "p" -> "P" [] c = "o" -> "O"
    [] c = "x" -> "X"
    [] OTHER -> c

toUpperCase(s) == [j \in 1..Len(s) |-> UpperChar(s[j])]

CompassMap(s) ==
  CASE s = <<"N">> -> Num(0)
    [] s = <<"N", "E">> -> Num(45)
    [] s = <<"E">> -> Num(90)
    [] s = <<"S", "E">> -> Num(135)
    [] s = <<"S">> -> Num(180)
    [] s = <<"S", "W">> -> Num(225)
    [] s = <<"W">> -> Num(270)
    [] s = <<"N", "W">> -> Num(315)
    [] OTHER -> NaN

headingToDeg(h) ==
  IF h = <<>> THEN NaN
  ELSE LET s == toUpperCase(h)
       IN IF IsNumeric(s) THEN Num(JsMod(JsMod(Number(s)[1], 360) + 360, 360))
          ELSE CompassMap(s)

(* ----------------------------- geometry ----------------------------- *)
\* Math.sin(deg * PI / 180) and Math.cos(deg * PI / 180), times Milli,
\* for the headings of the eight-point rose and for 20 degrees
SinMilli(deg) ==
  CASE deg = 0 -> 0      [] deg = 45 -> 707   [] deg = 90 -> 1000
    [] deg = 135 -> 707  [] deg = 180 -> 0    [] deg = 225 -> -707
    [] deg = 270 -> -1000 [] deg = 315 -> -707
    [] deg = 20 -> 342

CosMilli(deg) ==
  CASE deg = 0 -> 1000   [] deg = 45 -> 707   [] deg = 90 -> 0
    [] deg = 135 -> -707 [] deg = 180 -> -1000 [] deg = 225 -> -707
    [] deg = 270 -> 0    [] deg = 315 -> 707
    [] deg = 20 -> 940

\* Math.round(n / d): halves go up, also below zero
roundHalfAwayFromZero_MathRound(n, d) == FloorDiv(2 * n + d, 2 * d)

\* roundHalfAwayFromZero(n / d), d > 0
roundHalfAwayFromZero(n, d) ==
  IF n >= 0 THEN FloorDiv(2 * n + d, 2 * d) ELSE CeilDiv(2 * n - d, 2 * d)

\* snapToGrid(value, step): value and result in Milli, step in metres
snapToGrid(value, step) ==
  roundHalfAwayFromZero(value, step * Milli) * step * Milli

\* the result of snapToGrid is the JS value -0: Math.ceil of a value in (-1, 0)
snapIsNegZero(value, step) ==
  value < 0 /\ roundHalfAwayFromZero(value, step * Milli) = 0

\* the bearing taken with y growing to the north: Math.atan2(dx, dy)
bearingDeg_YUp(a, b) ==
  LET dx == b.x - a.x
      dy == a.y - b.y
  IN CASE dx = 0 /\ dy = 0 -> IF b.yNeg /\ ~a.yNeg THEN 180 ELSE 0
       [] dx = 0 /\ dy < 0 -> 0
       [] dx > 0 /\ dx = -dy -> 45
       [] dx > 0 /\ dy = 0 -> 90
       [] dx > 0 /\ dx = dy -> 135
       [] dx = 0 /\ dy > 0 -> 180
       [] dx < 0 /\ dx = -dy -> 225
       [] dx < 0 /\ dy = 0 -> 270
       [] dx < 0 /\ dx = dy -> 315

\* bearingDeg(ax, ay, bx, by) for the directions Math.atan2 gives exactly:
\* along an axis, along a diagonal, and both differences zero, where
\* atan2(+-0, -0) is +-PI (bearing 180) and atan2(+-0, +0) is +-0 (bearing 0);
\* by - ay is -0 only when by is -0 and ay is +0
bearingDeg(a, b) ==
  LET dx == b.x - a.x
      dy == b.y - a.y
  IN CASE dx = 0 /\ dy = 0 -> IF b.yNeg /\ ~a.yNeg THEN 0 ELSE 180
       [] dx = 0 /\ dy < 0 -> 0
       [] dx > 0 /\ dx = -dy -> 45
       [] dx > 0 /\ dy = 0 -> 90
       [] dx > 0 /\ dx = dy -> 135
       [] dx = 0 /\ dy > 0 -> 180
       [] dx < 0 /\ dx = -dy -> 225
       [] dx < 0 /\ dy = 0 -> 270
       [] dx < 0 /\ dx = dy -> 315

\* dist(a, b) squared, in Milli squared
dist2(a, b) == (a.x - b.x) * (a.x - b.x) + (a.y - b.y) * (a.y - b.y)

\* d > LINK_RADIUS, on the squares
beyondRadius(d2) == d2 > LINK_RADIUS * LINK_RADIUS * Milli * Milli

(* ------------------------- directional buckets ---------------------- *)
BucketCands == <<0, 90, -90, 180, -180>>

\* the loop of nearestCardinalBucket: the first candidate of least error
RECURSIVE bestCand(_, _, _, _)
bestCand(yaw, j, best, bestErr) ==
  IF j > Len(BucketCands) THEN <<best, bestErr>>
  ELSE LET err == Abs(normalize180(yaw - BucketCands[j]))
       IN IF bestErr = NaN \/ err < bestErr[1]
          THEN bestCand(yaw, j + 1, Num(BucketCands[j]), Num(err))
          ELSE bestCand(yaw, j + 1, best, bestErr)

\* nearestCardinalBucket(yaw): <<bucket>> or Null
nearestCardinalBucket(yaw) ==
  LET r == bestCand(yaw, 1, Null, NaN)
  IN IF r[2][1] <= TURN_TOL
     THEN IF r[1][1] = -180 THEN Num(180) ELSE r[1]
     ELSE Null

reciprocalBucket(bucket) ==
  CASE bucket = 0 -> Num(180)
    [] bucket = 180 -> Num(0)
    [] bucket = 90 -> Num(-90)
    [] bucket = -90 -> Num(90)
    [] OTHER -> Null

(* --------------------------- adjacency map -------------------------- *)
EmptyMap == [a \in {} |-> {}]

\* without the has() test: neigh.set(a, new Set()) on every call
addNeighbor_FreshSet(n, a, b) ==
  [c \in DOMAIN n \cup {a} |-> IF c = a THEN {b} ELSE n[c]]

addNeighbor(n, a, b) ==
  [c \in DOMAIN n \cup {a} |->
     IF c = a THEN (IF a \in DOMAIN n THEN n[a] ELSE {}) \cup {b} ELSE n[c]]

\* the delete aimed at the wrong member: neigh.get(a).delete(a)
removeNeighbor_WrongMember(n, a, b) ==
  IF a \notin DOMAIN n THEN n ELSE [n EXCEPT ![a] = n[a] \ {a}]

removeNeighbor(n, a, b) ==
  IF a \notin DOMAIN n THEN n ELSE [n EXCEPT ![a] = n[a] \ {b}]

\* neigh.get(id) || []
neighborsOf(n, a) == IF a \in DOMAIN n THEN n[a] ELSE {}

(* --------------------------- scene table ---------------------------- *)
\* one row of scenes.csv -> scene record (the body of rows.map)
rowInvalid(r) ==
  \/ r.id = <<>>
  \/ r.filename = <<>>
  \/ ~isFinite(headingToDeg(r.heading))

\* filename.replace(/\.[^.]+$/, ""): the last "." and what follows it are cut
\* when something follows it
sceneKeyFromFilename(f) ==
  LET dots == {j \in 1..Len(f) : f[j] = "."}
  IN IF dots = {} THEN f
     ELSE LET p == CHOOSE j \in dots : \A j2 \in dots : j2 <= j
          IN IF p < Len(f) THEN SubSeq(f, 1, p - 1) ELSE f

sceneOfRow(r) ==
  [id |-> r.id,
   filename |-> r.filename,
   sceneKey |-> sceneKeyFromFilename(r.filename),
   headingDeg |-> headingToDeg(r.heading)[1],
   moveHeadingDeg |->
     LET mh == IF r.moveHeading # <<>> THEN headingToDeg(r.moveHeading) ELSE NaN
     IN IF isFinite(mh) THEN mh ELSE Null,
   stepMeters |-> toNum(r.stepMeters, DEFAULT_STEP_METERS)]

\* the ids compared as strings, character by character
RECURSIVE lexCompare(_, _)
lexCompare(s, t) ==
  IF s = <<>> /\ t = <<>> THEN 0
  ELSE IF s = <<>> THEN -1
  ELSE IF t = <<>> THEN 1
  ELSE IF s[1] # t[1] THEN DigitVal(s[1]) - DigitVal(t[1])
  ELSE lexCompare(Tail(s), Tail(t))

compareIds_Lexical(a, b) == lexCompare(a.id, b.id)

\* the comparator (a, b) => Number(a.id) - Number(b.id); a NaN result counts as 0
compareIds(a, b) ==
  LET na == Number(a.id)
      nb == Number(b.id)
  IN IF isFinite(na) /\ isFinite(nb) THEN na[1] - nb[1] ELSE 0

\* Array.prototype.sort is stable: insert each element after its equals
RECURSIVE insertSorted(_, _, _)
insertSorted(sorted, r, j) ==
  IF j > Len(sorted) THEN Append(sorted, r)
  ELSE IF compareIds(sorted[j], r) > 0
       THEN SubSeq(sorted, 1, j - 1) \o <<r>> \o SubSeq(sorted, j, Len(sorted))
       ELSE insertSorted(sorted, r, j + 1)

RECURSIVE sortScenes(_)
sortScenes(seq) ==
  IF seq = <<>> THEN <<>>
  ELSE insertSorted(sortScenes(SubSeq(seq, 1, Len(seq) - 1)), seq[Len(seq)], 1)

SceneIdSet(sc) == {sc[j].id : j \in 1..Len(sc)}

\* new Map(list.map(e => [e.id, e])).get(id): the last entry of that id
byId(list, id) ==
  list[CHOOSE j \in 1..Len(list) :
         /\ list[j].id = id
         /\ \A j2 \in (j + 1)..Len(list) : list[j2].id # id]

(* ------------------------- dead reckoning --------------------------- *)
\* prev.moveHeadingDeg ?? prev.headingDeg
moveDegOf(prev) ==
  IF prev.moveHeadingDeg = Null THEN prev.headingDeg ELSE prev.moveHeadingDeg[1]

\* const d = prev.stepMeters
stepLenOf(prev, cur) == prev.stepMeters

\* the accumulator snapped at every step
advance_SnapEachStep(acc, delta) == snapToGrid(acc + delta, GRID_STEP)

\* x += d * Math.sin(theta); y -= d * Math.cos(theta)
advance(acc, delta) == acc + delta

nodeAt(s, px, py) ==
  [id |-> s.id, x |-> px, y |-> py, yNeg |-> FALSE, headingDeg |-> s.headingDeg]

snapNode(n) ==
  [n EXCEPT !.x = snapToGrid(n.x, GRID_STEP),
            !.y = snapToGrid(n.y, GRID_STEP),
            !.yNeg = snapIsNegZero(n.y, GRID_STEP)]

(* --------------------------- graph steps ---------------------------- *)
RECURSIVE sequentialStep(_, _, _)
sequentialStep(n, sc, j) ==
  IF j > Len(sc) - 1 THEN n
  ELSE sequentialStep(addNeighbor(addNeighbor(n, sc[j].id, sc[j + 1].id),
                                  sc[j + 1].id, sc[j].id), sc, j + 1)

\* only e.from looked up in sceneById
manualKept_FromOnly(e, sc) == e.from \in SceneIdSet(sc)

\* sceneById.has(e.from) && sceneById.has(e.to)
manualKept(e, sc) == e.from \in SceneIdSet(sc) /\ e.to \in SceneIdSet(sc)

RECURSIVE manualStep(_, _, _, _)
manualStep(n, edges, sc, j) ==
  IF j > Len(edges) THEN n
  ELSE IF ~manualKept(edges[j], sc) THEN manualStep(n, edges, sc, j + 1)
  ELSE manualStep(addNeighbor(addNeighbor(n, edges[j].from, edges[j].to),
                              edges[j].to, edges[j].from), edges, sc, j + 1)

\* the blocked loop without its second removeNeighbor
RECURSIVE blockedStep_OneWay(_, _, _)
blockedStep_OneWay(n, edges, j) ==
  IF j > Len(edges) THEN n
  ELSE blockedStep_OneWay(removeNeighbor(n, edges[j].from, edges[j].to), edges, j + 1)

RECURSIVE blockedStep(_, _, _)
blockedStep(n, edges, j) ==
  IF j > Len(edges) THEN n
  ELSE blockedStep(removeNeighbor(removeNeighbor(n, edges[j].from, edges[j].to),
                                  edges[j].to, edges[j].from), edges, j + 1)

\* every candidate pushed as a new entry, as on an array
bucketIndex_Push(best, bucket) == 0

\* bestByBucket.set(bucket, e): a new key goes last, an old key keeps its place
bucketIndex(best, bucket) ==
  IF \E j \in 1..Len(best) : best[j].bucket = bucket
  THEN CHOOSE j \in 1..Len(best) : best[j].bucket = bucket
  ELSE 0

\* a candidate at the same distance takes the bucket: d <= prev.d
replacesBest_LastOnTie(best, p, d) == p = 0 \/ d <= best[p].d

\* !prev || d < prev.d
replacesBest(best, p, d) == p = 0 \/ d < best[p].d

\* the inner loop over t of scenes: the nearest candidate of each bucket
RECURSIVE scanCandidates(_, _, _, _, _)
scanCandidates(aId, sc, nd, j, best) ==
  IF j > Len(sc) THEN best
  ELSE LET bId == sc[j].id
           aNode == byId(nd, aId)
           bNode == byId(nd, bId)
           d == dist2(aNode, bNode)
           yaw == normalize180(bearingDeg(aNode, bNode) - aNode.headingDeg)
           bucket == nearestCardinalBucket(yaw)
           p == bucketIndex(best, bucket[1])
           e == [bId |-> bId, d |-> d, bucket |-> bucket[1]]
       IN IF aId = bId \/ beyondRadius(d) \/ bucket = Null
          THEN scanCandidates(aId, sc, nd, j + 1, best)
          ELSE IF ~replacesBest(best, p, d)
               THEN scanCandidates(aId, sc, nd, j + 1, best)
               ELSE scanCandidates(aId, sc, nd, j + 1,
                      IF p = 0 THEN Append(best, e) ELSE [best EXCEPT ![p] = e])

\* .sort((p, q) => p.d - q.d), stable
RECURSIVE insertByDist(_, _, _)
insertByDist(sorted, e, j) ==
  IF j > Len(sorted) THEN Append(sorted, e)
  ELSE IF sorted[j].d - e.d > 0
       THEN SubSeq(sorted, 1, j - 1) \o <<e>> \o SubSeq(sorted, j, Len(sorted))
       ELSE insertByDist(sorted, e, j + 1)

RECURSIVE sortByDist(_)
sortByDist(seq) ==
  IF seq = <<>> THEN <<>>
  ELSE insertByDist(sortByDist(SubSeq(seq, 1, Len(seq) - 1)), seq[Len(seq)], 1)

\* .slice(0, MAX_PROX_LINKS_PER_NODE)
winnersOf(best) ==
  LET sorted == sortByDist(best)
  IN SubSeq(sorted, 1, IF Len(sorted) < MAX_PROX_LINKS_PER_NODE
                       THEN Len(sorted) ELSE MAX_PROX_LINKS_PER_NODE)

\* the bucket of a as seen from b
bucketBack(aId, bId, nd) ==
  LET aNode == byId(nd, aId)
      bNode == byId(nd, bId)
  IN nearestCardinalBucket(normalize180(bearingDeg(bNode, aNode) - bNode.headingDeg))

\* the reciprocity test left out
reciprocalOk_Skipped(aId, w, nd) == TRUE

\* the REQUIRE_RECIPROCAL test of one winner: TRUE when the winner passes
reciprocalOk(aId, w, nd) ==
  LET bucketBA == bucketBack(aId, w.bId, nd)
      expected == reciprocalBucket(w.bucket)
  IN ~REQUIRE_RECIPROCAL
     \/ ~(bucketBA = Null \/ expected = Null \/ bucketBA # expected)

acceptedOf(aId, winners, nd) == SelectSeq(winners, LAMBDA w : reciprocalOk(aId, w, nd))

RECURSIVE addAccepted(_, _, _, _)
addAccepted(n, aId, acc, j) ==
  IF j > Len(acc) THEN n
  ELSE addAccepted(addNeighbor(addNeighbor(n, aId, acc[j].bId), acc[j].bId, aId),
                   aId, acc, j + 1)

\* loadEdgesIfPresent: rows with both cells non-empty; an absent file is []
loadEdgesIfPresent(file) ==
  SelectSeq(file, LAMBDA e : e.from # <<>> /\ e.to # <<>>)

(* ---------------------------- tour stage ---------------------------- *)
\* the existence test left out
verifyScene_NoCheck(present) == TRUE

\* verifyScene(sceneKey): TRUE when scenes/<sceneKey>/config.json exists
verifyScene(present) == present

\* [...(neigh.get(id) || [])]: each member of the Set once; the list is given
\* in scene-table order (the Set's insertion order is not represented)
neighborList(n, id, sc) ==
  SelectSeq([j \in 1..Len(sc) |-> sc[j].id], LAMBDA b : b \in neighborsOf(n, id))

\* the yaw taken relative to the heading of the destination
hotSpotYaw_TargetHeading(fromNode, toNode) ==
  LET yaw == normalize180(bearingDeg(fromNode, toNode) - toNode.headingDeg)
      b == nearestCardinalBucket(yaw)
  IN IF SNAP_HOTSPOT_YAW /\ b # Null THEN b[1] ELSE yaw

\* yaw of the hotspot: normalize180(brg - fromNode.headingDeg), snapped to its
\* bucket when SNAP_HOTSPOT_YAW and a bucket is within TURN_TOL
hotSpotYaw(fromNode, toNode) ==
  LET yaw == normalize180(bearingDeg(fromNode, toNode) - fromNode.headingDeg)
      b == nearestCardinalBucket(yaw)
  IN IF SNAP_HOTSPOT_YAW /\ b # Null THEN b[1] ELSE yaw

\* one element of neighbors.map
hotSpotOf(s, toId, sc, nd) ==
  LET toScene == byId(sc, toId)
      fromNode == byId(nd, s.id)
      toNode == byId(nd, toId)
  IN [sceneId |-> toScene.sceneKey,
      pitch |-> -5,
      yaw |-> hotSpotYaw(fromNode, toNode),
      targetYaw |-> normalize180(bearingDeg(fromNode, toNode) - toScene.headingDeg)]

hotSpotsOf(s, n, sc, nd) ==
  LET nb == neighborList(n, s.id, sc)
  IN [j \in 1..Len(nb) |-> hotSpotOf(s, nb[j], sc, nd)]

\* scenesObj[s.sceneKey] = {...}
sceneEntry(s, n, sc, nd) ==
  [title |-> s.sceneKey,
   yaw |-> normalize180(-(byId(nd, s.id).headingDeg)),
   pitch |-> 0,
   hotSpots |-> hotSpotsOf(s, n, sc, nd)]

\* obj[key] = value on a JS object: a later value replaces an earlier one
putKey(obj, key, value) ==
  [c \in DOMAIN obj \cup {key} |-> IF c = key THEN value ELSE obj[c]]

(* ------------------------------ inputs ------------------------------ *)
IdPool == << <<"2">>, <<"9">>, <<"1", "0">>, <<"1", "1">> >>
UnknownId == <<"7">>
\* every row names its own image file
FileNameOf(id) == <<"s">> \o id \o <<".", "j", "p", "g">>

RowCounts == {n \in 0..MaxScenes : n <= Len(IdPool)}

\* rows is a scenes.csv of n rows whose ids are IdPool[1..n] in file order,
\* with headings from hs, moveHeadings from ms and stepMeters from ss
RowsFrom(hs, ms, ss) ==
  \E n \in RowCounts :
    \E h \in [1..n -> hs], m \in [1..n -> ms], st \in [1..n -> ss] :
      rows = [j \in 1..n |-> [id |-> IdPool[j], filename |-> FileNameOf(IdPool[j]),
                              heading |-> h[j], moveHeading |-> m[j],
                              stepMeters |-> st[j]]]

\* rows is a scenes.csv whose rows carry distinct ids in any file order
RowsPermuted(ids) ==
  \E n \in RowCounts :
    \E f \in [1..n -> ids] :
      /\ \A a, b \in 1..n : a # b => f[a] # f[b]
      /\ rows = [j \in 1..n |-> [id |-> f[j], filename |-> FileNameOf(f[j]),
                                 heading |-> <<"N">>, moveHeading |-> <<>>,
                                 stepMeters |-> <<"5">>]]

\* the scenes.csv tables of up to MaxScenes rows with the ids of pool in file
\* order and cells drawn from hs, ms and ss
RowTables(pool, hs, ms, ss) ==
  UNION {{[j \in 1..n |-> [id |-> pool[j], filename |-> FileNameOf(pool[j]),
                           heading |-> h[j], moveHeading |-> m[j],
                           stepMeters |-> st[j]]] :
            h \in [1..n -> hs], m \in [1..n -> ms], st \in [1..n -> ss]} :
         n \in RowCounts}

\* a table with one cell blanked: the id or the filename of row d.at
Defects(tb) ==
  {[at |-> 0, col |-> "none"]} \cup
  {[at |-> j, col |-> c] : j \in 1..Len(tb), c \in {"id", "filename"}}

Damaged(tb, d) ==
  [j \in 1..Len(tb) |->
     IF j # d.at THEN tb[j]
     ELSE IF d.col = "id" THEN [tb[j] EXCEPT !.id = <<>>]
     ELSE [tb[j] EXCEPT !.filename = <<>>]]

GraphHeadings == {<<"N">>, <<"S">>}
GraphMoves == {<<>>, <<"E">>}
GraphSteps == {<<"5">>}

PosHeadings == {<<"n", "e">>, <<"E">>}
PosMoves == {<<>>, <<"0">>}
PosSteps == {<<"5">>, <<"2">>}

\* the tour stage: ids 1..4, headings on and off the compass rose, one bad token
TourIds == << <<"1">>, <<"2">>, <<"3">>, <<"4">> >>
TourHeadings == {<<"N">>, <<"E">>, <<"N", "E">>, <<"2", "0">>, <<"x">>}
TourMoves == {<<>>}
TourSteps == {<<"5">>}

\* heading cells: compass points in either case, degree tokens in and out of
\* [0, 360), a point of the sixteen-point rose, a misspelt point, an empty cell
HeadTokens ==
  {<<"s">>, <<"n", "e">>, <<"2", "2", "5">>, <<"-", "9", "0">>,
   <<"E", "N", "E">>, <<"N", "N", "E", "-", "t", "y", "p", "o">>, <<>>}

\* moveHeading cells: blank, due north as a point and as degrees, a bad token
MoveTokens == {<<>>, <<"N">>, <<"0">>, <<"x">>}
MoveHeadings == {<<"E">>, <<"s">>}

\* the proximity pass on a straight corridor walked back and forth, with
\* steps that end on the same grid point
ProxHeadings == {<<"N">>, <<"S">>}
ProxMoves == {<<>>, <<"N">>}
ProxSteps == {<<"5">>, <<"2">>}

SortIds == {IdPool[j] : j \in 1..Len(IdPool)} \cup {<<"0", "2">>}

Edge(a, b) == [from |-> a, to |-> b]

\* rows of an edge file: a consecutive pair (second scene first), a pair that
\* is not consecutive, a pair (a, a), and a row naming an unknown id on
\* either side
EdgeRows ==
  {Edge(IdPool[2], IdPool[1]), Edge(IdPool[1], IdPool[3]), Edge(IdPool[2], IdPool[2]),
   Edge(IdPool[1], UnknownId), Edge(UnknownId, IdPool[3])}

\* manual_edges.csv / blocked_edges.csv files of at most MaxEdges rows
EdgeFiles == UNION {[1..n -> EdgeRows] : n \in 0..MaxEdges}
NoEdgeFile == {<<>>}

\* an absent file, or the one row (second scene, first scene)
TourEdgeFiles == {<<>>, <<Edge(TourIds[2], TourIds[1])>>}

\* scenes/<sceneKey>/config.json is found, or found or missing
ConfigsPresent == {TRUE}
ConfigsAny == BOOLEAN

(* ------------------------------ actions ----------------------------- *)
TourRest ==
  /\ tourK = 0
  /\ cfgLog = <<>>
  /\ scenesObj = EmptyMap
  /\ tourJson = <<>>

WebRest ==
  /\ mainPc = "off"
  /\ mmFetch = <<>>
  /\ navFetch = <<>>
  /\ handlers = {}
  /\ viewerScene = Null
  /\ marker = [visible |-> TRUE, trail |-> FALSE, dir |-> Null]
  /\ mmData = <<>>
  /\ navData = <<>>
  /\ queried = {}
  /\ served = {}

InitRest ==
  /\ pc = "start"
  /\ scenes = <<>>
  /\ edgesCsv = <<>>
  /\ i = 0 /\ x = 0 /\ y = 0
  /\ nodes = <<>>
  /\ nodesCsv = <<>>
  /\ neigh = EmptyMap
  /\ manualEdges = <<>>
  /\ blockedEdges = <<>>
  /\ k = 0
  /\ proxLog = <<>>
  /\ sv = 0 /\ sstep = GRID_STEP /\ sr = <<>>
  /\ TourRest
  /\ WebRest

\* scenes.csv -> scenes, sorted by numeric id; a bad row throws
Load ==
  /\ pc = "start"
  /\ IF \E j \in 1..Len(rows) : rowInvalid(rows[j])
     THEN /\ pc' = "aborted"
          /\ UNCHANGED scenes
     ELSE /\ scenes' = sortScenes([j \in 1..Len(rows) |-> sceneOfRow(rows[j])])
          /\ pc' = "edges"
  /\ UNCHANGED <<rows, edgesCsv, i, x, y, nodes, nodesCsv, neigh, manualEdges,
                 blockedEdges, k, proxLog, sv, sstep, sr, tourVars, webVars>>

\* 1) edges.csv: header, then one row per consecutive pair
WriteEdges ==
  /\ pc = "edges"
  /\ edgesCsv' = << <<"from", "to">> >> \o
                 [j \in 1..(Len(scenes) - 1) |-> <<scenes[j].id, scenes[j + 1].id>>]
  /\ pc' = "origin"
  /\ UNCHANGED <<rows, scenes, i, x, y, nodes, nodesCsv, neigh, manualEdges,
                 blockedEdges, k, proxLog, sv, sstep, sr, tourVars, webVars>>

\* 2) let x=0, y=0; nodes.push(first scene); scenes[0] of an empty table throws
StartReckon ==
  /\ pc = "origin"
  /\ IF scenes = <<>>
     THEN /\ pc' = "aborted"
          /\ UNCHANGED <<i, x, y, nodes>>
     ELSE /\ x' = 0 /\ y' = 0
          /\ nodes' = <<nodeAt(scenes[1], 0, 0)>>
          /\ i' = 2
          /\ pc' = "reckon"
  /\ UNCHANGED <<rows, scenes, edgesCsv, nodesCsv, neigh, manualEdges,
                 blockedEdges, k, proxLog, sv, sstep, sr, tourVars, webVars>>

\* one pass of the dead-reckoning loop: scene i placed from scene i-1
ReckonStep ==
  /\ pc = "reckon"
  /\ i <= Len(scenes)
  /\ LET prev == scenes[i - 1]
         moveDeg == moveDegOf(prev)
         d == stepLenOf(prev, scenes[i])
         nx == advance(x, d * SinMilli(moveDeg))
         ny == advance(y, -(d * CosMilli(moveDeg)))
     IN /\ x' = nx
        /\ y' = ny
        /\ nodes' = Append(nodes, nodeAt(scenes[i], nx, ny))
  /\ i' = i + 1
  /\ UNCHANGED <<pc, rows, scenes, edgesCsv, nodesCsv, neigh, manualEdges,
                 blockedEdges, k, proxLog, sv, sstep, sr, tourVars, webVars>>

\* 2b) snap every node to the grid, after the loop
SnapAtEnd ==
  /\ pc = "reckon"
  /\ i > Len(scenes)
  /\ nodes' = [j \in 1..Len(nodes) |-> snapNode(nodes[j])]
  /\ pc' = "nodes"
  /\ UNCHANGED <<rows, scenes, edgesCsv, i, x, y, nodesCsv, neigh, manualEdges,
                 blockedEdges, k, proxLog, sv, sstep, sr, tourVars, webVars>>

\* nodes.csv: header, then id, x.toFixed(3), y.toFixed(3), headingDeg
WriteNodes ==
  /\ pc = "nodes"
  /\ nodesCsv' = << <<"id", "x", "y", "headingDeg">> >> \o
                 [j \in 1..Len(nodes) |->
                    <<nodes[j].id, nodes[j].x, nodes[j].y, nodes[j].headingDeg>>]
  /\ pc' = "sequential"
  /\ UNCHANGED <<rows, scenes, edgesCsv, i, x, y, nodes, neigh, manualEdges,
                 blockedEdges, k, proxLog, sv, sstep, sr, tourVars, webVars>>

\* 3) neigh = new Map(); sequential links
Sequential ==
  /\ pc = "sequential"
  /\ neigh' = sequentialStep(EmptyMap, scenes, 1)
  /\ pc' = "manual"
  /\ UNCHANGED <<rows, scenes, edgesCsv, i, x, y, nodes, nodesCsv, manualEdges,
                 blockedEdges, k, proxLog, sv, sstep, sr, tourVars, webVars>>

\* manual_edges.csv is read here; its rows are inserted
Manual(files) ==
  /\ pc = "manual"
  /\ \E f \in files :
       /\ manualEdges' = loadEdgesIfPresent(f)
       /\ neigh' = manualStep(neigh, loadEdgesIfPresent(f), scenes, 1)
  /\ k' = 1
  /\ pc' = "proximity"
  /\ UNCHANGED <<rows, scenes, edgesCsv, i, x, y, nodes, nodesCsv,
                 blockedEdges, proxLog, sv, sstep, sr, tourVars, webVars>>

\* one pass of the proximity loop: scene k looks for its extra exits
Proximity ==
  /\ pc = "proximity"
  /\ k <= Len(scenes)
  /\ LET aId == scenes[k].id
         best == scanCandidates(aId, scenes, nodes, 1, <<>>)
         winners == winnersOf(best)
         accepted == acceptedOf(aId, winners, nodes)
     IN /\ neigh' = addAccepted(neigh, aId, accepted, 1)
        /\ proxLog' = Append(proxLog, [aId |-> aId, best |-> best,
                                       winners |-> winners, accepted |-> accepted])
  /\ k' = k + 1
  /\ UNCHANGED <<pc, rows, scenes, edgesCsv, i, x, y, nodes, nodesCsv, manualEdges,
                 blockedEdges, sv, sstep, sr, tourVars, webVars>>

\* blocked_edges.csv is read here; its rows are removed
Blocked(files) ==
  /\ pc = "proximity"
  /\ k > Len(scenes)
  /\ \E f \in files :
       /\ blockedEdges' = loadEdgesIfPresent(f)
       /\ neigh' = blockedStep(neigh, loadEdgesIfPresent(f), 1)
  /\ tourK' = 1
  /\ pc' = "tour"
  /\ UNCHANGED <<rows, scenes, edgesCsv, i, x, y, nodes, nodesCsv, manualEdges,
                 k, proxLog, sv, sstep, sr, cfgLog, scenesObj, tourJson, webVars>>

\* 4) one pass of the tour loop: verifyScene, then the hotSpots of scene tourK;
\* a missing config.json throws, and so does a neighbor that is no scene
TourScene(cfgs) ==
  /\ pc = "tour"
  /\ tourK <= Len(scenes)
  /\ \E present \in cfgs :
       LET s == scenes[tourK]
       IN /\ cfgLog' = Append(cfgLog, [sceneKey |-> s.sceneKey, present |-> present])
          /\ IF ~verifyScene(present) \/ ~(neighborsOf(neigh, s.id) \subseteq SceneIdSet(scenes))
             THEN /\ pc' = "aborted"
                  /\ UNCHANGED <<scenesObj, tourK>>
             ELSE /\ scenesObj' = putKey(scenesObj, s.sceneKey,
                                         sceneEntry(s, neigh, scenes, nodes))
                  /\ tourK' = tourK + 1
                  /\ UNCHANGED pc
  /\ UNCHANGED <<rows, scenes, edgesCsv, i, x, y, nodes, nodesCsv, neigh, manualEdges,
                 blockedEdges, k, proxLog, sv, sstep, sr, tourJson, webVars>>

\* writeText(OUT_TOUR, ...) after the loop
WriteTour ==
  /\ pc = "tour"
  /\ tourK > Len(scenes)
  /\ tourJson' = <<[firstScene |-> scenes[1].sceneKey, scenes |-> scenesObj]>>
  /\ pc' = "done"
  /\ UNCHANGED <<rows, scenes, edgesCsv, i, x, y, nodes, nodesCsv, neigh, manualEdges,
                 blockedEdges, k, proxLog, sv, sstep, sr, tourK, cfgLog, scenesObj, webVars>>

Tour(cfgs) ==
  \/ TourScene(cfgs)
  \/ WriteTour

Build(files) ==
  \/ Load
  \/ WriteEdges
  \/ StartReckon
  \/ ReckonStep
  \/ SnapAtEnd
  \/ WriteNodes
  \/ Sequential
  \/ Manual(files)
  \/ Proximity
  \/ Blocked(files)

(* --------------------------- browser runtime ------------------------ *)
\* the four files each component fetches
Files == {"nodes", "edges", "manual", "scenes"}
Pending == [f \in Files |-> "pending"]

\* tryFetchText: the text of a served file, "" for any failure
tryFetchText(f, sv0) == IF f \in sv0 THEN "ok" ELSE "empty"

\* the continuation runs as soon as one fetch has settled
allSettled_Race(fetch) == \E f \in Files : fetch[f] # "pending"

\* await Promise.all([...]): every fetch has settled
allSettled(fetch) == \A f \in Files : fetch[f] # "pending"

\* parseCSV of a fetched text; "" has no rows
textRows(fetch, f, content) == IF fetch[f] = "ok" THEN content ELSE <<>>

\* nodes.csv rows -> {id, x, y, headingDeg}; every written row passes the filter
nodeRowsOf(csv) ==
  [j \in 1..(Len(csv) - 1) |->
     [id |-> csv[j + 1][1], x |-> csv[j + 1][2], y |-> csv[j + 1][3],
      yNeg |-> FALSE, headingDeg |-> csv[j + 1][4]]]

\* edges.csv rows -> {from, to}
edgeRowsOf(csv) == [j \in 1..(Len(csv) - 1) |-> Edge(csv[j + 1][1], csv[j + 1][2])]

\* new Map(pairs): a later pair replaces an earlier one with the same key
mapOfPairs(ps) ==
  [c \in {ps[j][1] : j \in 1..Len(ps)} |->
     ps[CHOOSE j \in 1..Len(ps) :
          ps[j][1] = c /\ \A h \in (j + 1)..Len(ps) : ps[h][1] # c][2]]

\* Map.get; undefined, null and "" are all falsy and all read as the empty id
mapGet(m, key) == IF key \in DOMAIN m THEN m[key] ELSE Null

idBySceneKeyOf(srows) ==
  mapOfPairs([j \in 1..Len(srows) |-> <<sceneKeyFromFilename(srows[j].filename), srows[j].id>>])

sceneKeyByIdOf(srows) ==
  mapOfPairs([j \in 1..Len(srows) |-> <<srows[j].id, sceneKeyFromFilename(srows[j].filename)>>])

\* edges.csv rows then manual_edges.csv rows, rows without from or to dropped
edgeRowsFetched(fetch, edgesTxt, manualTxt) ==
  SelectSeq(textRows(fetch, "edges", edgeRowsOf(edgesTxt))
              \o textRows(fetch, "manual", manualTxt),
            LAMBDA e : e.from # <<>> /\ e.to # <<>>)

\* for (const e of edgeRows) if (!nextById.has(e.from)) nextById.set(e.from, e.to)
RECURSIVE nextByIdOf(_, _, _)
nextByIdOf(er, j, m) ==
  IF j > Len(er) THEN m
  ELSE nextByIdOf(er, j + 1,
                  IF er[j].from \in DOMAIN m THEN m
                  ELSE putKey(m, er[j].from, er[j].to))

\* what createNav3D keeps of the four texts
navParse(fetch, nodesTxt, edgesTxt, manualTxt, scenesTxt) ==
  LET nd == textRows(fetch, "nodes", nodeRowsOf(nodesTxt))
      srows == textRows(fetch, "scenes", scenesTxt)
  IN [nodesById |-> mapOfPairs([j \in 1..Len(nd) |-> <<nd[j].id, nd[j]>>]),
      idBySceneKey |-> idBySceneKeyOf(srows),
      nextById |-> nextByIdOf(edgeRowsFetched(fetch, edgesTxt, manualTxt), 1, EmptyMap)]

\* the marker after updateMarker(sceneKey)
updateMarker(sceneKey, data, m) ==
  LET id == mapGet(data.idBySceneKey, sceneKey)
      nextId == mapGet(data.nextById, id)
      hidden == [m EXCEPT !.visible = FALSE, !.trail = FALSE]
  IN IF id = Null \/ nextId = Null THEN hidden
     ELSE IF ~(id \in DOMAIN data.nodesById /\ nextId \in DOMAIN data.nodesById)
     THEN hidden
     ELSE LET fromNode == data.nodesById[id]
              toNode == data.nodesById[nextId]
          IN [visible |-> TRUE, trail |-> TRUE,
              dir |-> <<normalize180(bearingDeg(fromNode, toNode)
                                     - fromNode.headingDeg)>>]

\* what createMinimap keeps of the four texts
mmParse(fetch, nodesTxt, edgesTxt, manualTxt, scenesTxt) ==
  LET nd == textRows(fetch, "nodes", nodeRowsOf(nodesTxt))
      srows == textRows(fetch, "scenes", scenesTxt)
      er == edgeRowsFetched(fetch, edgesTxt, manualTxt)
      sorted == sortScenes(nd)
  IN [nodes |-> nd,
      edges |-> IF er # <<>> THEN er
                ELSE [j \in 1..(Len(sorted) - 1) |->
                        Edge(sorted[j].id, sorted[j + 1].id)],
      idBySceneKey |-> idBySceneKeyOf(srows),
      sceneKeyById |-> sceneKeyByIdOf(srows),
      selectedId |-> Null]

\* selectedId = idBySceneKey.get(sceneKey) || null
setSelectedByScene(sceneKey, d) ==
  [d EXCEPT !.selectedId = mapGet(d.idBySceneKey, sceneKey)]

\* a call of a function that reads nodes or edges, with whether the four
\* fetches of its component had all settled and been parsed by then
Query(fn, fetch, data) ==
  [fn |-> fn, loaded |-> fetch # <<>> /\ data # <<>>
                         /\ \A f \in Files : fetch[f] # "pending"]

\* the viewer emits scenechange: every registered listener runs
Dispatch(sceneKey, before) ==
  /\ viewerScene' = <<sceneKey>>
  /\ mmData' = IF "selected" \in handlers THEN setSelectedByScene(sceneKey, mmData)
               ELSE mmData
  /\ marker' = IF "marker" \in handlers THEN updateMarker(sceneKey, navData, marker)
               ELSE marker
  /\ queried' =
       before
       \cup (IF "selected" \in handlers
             THEN {Query("setSelectedByScene", mmFetch, mmData),
                   Query("draw", mmFetch, mmData)}
             ELSE {})
       \cup (IF "marker" \in handlers
             THEN {Query("updateMarker", navFetch, navData)} ELSE {})

\* app.js: tour.json is fetched, the viewer shows firstScene, createMinimap
\* starts its four fetches
OpenPage ==
  /\ pc = "done"
  /\ mainPc = "off"
  /\ served' \in SUBSET Files
  /\ viewerScene' = <<tourJson[1].firstScene>>
  /\ mmFetch' = Pending
  /\ mainPc' = "minimap"
  /\ UNCHANGED <<navFetch, handlers, marker, mmData, navData, queried,
                 buildVars, tourVars>>

\* one of the minimap's fetches settles
MinimapFetched ==
  /\ mainPc = "minimap"
  /\ \E f \in Files :
       /\ mmFetch[f] = "pending"
       /\ mmFetch' = [mmFetch EXCEPT ![f] = tryFetchText(f, served)]
  /\ UNCHANGED <<mainPc, navFetch, handlers, viewerScene, marker, mmData, navData,
                 queried, served,
                 buildVars, tourVars>>

\* createMinimap after its await: parse, listeners, first draw; then main
\* registers setSelectedByScene and createNav3D starts its four fetches
MinimapReady ==
  /\ mainPc = "minimap"
  /\ allSettled(mmFetch)
  /\ mmData' = mmParse(mmFetch, nodesCsv, edgesCsv, manualEdges, rows)
  /\ handlers' = handlers \cup {"click", "resize", "selected"}
  /\ queried' = {Query("draw", mmFetch, mmData')}
  /\ navFetch' = Pending
  /\ mainPc' = "nav3d"
  /\ UNCHANGED <<mmFetch, viewerScene, marker, navData, served,
                 buildVars, tourVars>>

\* one of the direction marker's fetches settles
Nav3dFetched ==
  /\ mainPc = "nav3d"
  /\ \E f \in Files :
       /\ navFetch[f] = "pending"
       /\ navFetch' = [navFetch EXCEPT ![f] = tryFetchText(f, served)]
  /\ UNCHANGED <<mainPc, mmFetch, handlers, viewerScene, marker, mmData, navData,
                 queried, served,
                 buildVars, tourVars>>

\* createNav3D after its await: parse, listeners, updateMarker(initialScene)
Nav3dReady ==
  /\ mainPc = "nav3d"
  /\ allSettled(navFetch)
  /\ navData' = navParse(navFetch, nodesCsv, edgesCsv, manualEdges, rows)
  /\ handlers' = handlers \cup {"marker"}
  /\ marker' = updateMarker(viewerScene[1], navData', marker)
  /\ queried' = {Query("updateMarker", navFetch, navData')}
  /\ mainPc' = "running"
  /\ UNCHANGED <<mmFetch, navFetch, viewerScene, mmData, served,
                 buildVars, tourVars>>

\* the visitor follows a hotspot of the scene on show
FollowHotSpot ==
  /\ mainPc # "off"
  /\ \E j \in 1..Len(tourJson[1].scenes[viewerScene[1]].hotSpots) :
       Dispatch(tourJson[1].scenes[viewerScene[1]].hotSpots[j].sceneId, {})
  /\ UNCHANGED <<mainPc, mmFetch, navFetch, handlers, navData, served,
                 buildVars, tourVars>>

\* a click on the minimap: nearestNode, then viewer.loadScene(sceneKey)
ClickMinimap ==
  /\ "click" \in handlers
  /\ \E j \in 1..Len(mmData.nodes) :
       LET sceneKey == mapGet(mmData.sceneKeyById, mmData.nodes[j].id)
       IN /\ sceneKey # Null
          /\ Dispatch(sceneKey, {Query("nearestNode", mmFetch, mmData)})
  /\ UNCHANGED <<mainPc, mmFetch, navFetch, handlers, navData, served,
                 buildVars, tourVars>>

\* the window is resized: the minimap's resize() draws
ResizeWindow ==
  /\ "resize" \in handlers
  /\ queried' = {Query("draw", mmFetch, mmData)}
  /\ UNCHANGED <<mainPc, mmFetch, navFetch, handlers, viewerScene, marker, mmData,
                 navData, served,
                 buildVars, tourVars>>

Web ==
  \/ OpenPage
  \/ MinimapFetched
  \/ MinimapReady
  \/ Nav3dFetched
  \/ Nav3dReady
  \/ FollowHotSpot
  \/ ClickMinimap
  \/ ResizeWindow

(* --------------------------- specifications ------------------------- *)
\* the graph builder with manual and blocked edge files
Init == RowsFrom(GraphHeadings, GraphMoves, GraphSteps) /\ InitRest
Next == Build(EdgeFiles)
Spec == Init /\ [][Next]_vars

\* the positioner: varied headings, moveHeadings and steps, no edge files
InitPos == RowsFrom(PosHeadings, PosMoves, PosSteps) /\ InitRest
NextPos == Build(NoEdgeFile)
SpecPos == InitPos /\ [][NextPos]_vars

\* the loader: rows in any file order, no edge files
InitSort == RowsPermuted(SortIds) /\ InitRest
NextSort == Build(NoEdgeFile)
SpecSort == InitSort /\ [][NextSort]_vars

\* the whole build with the tour stage: bad rows, missing config.json files
InitTour ==
  /\ \E tb \in RowTables(TourIds, TourHeadings, TourMoves, TourSteps) :
       \E d \in Defects(tb) : rows = Damaged(tb, d)
  /\ InitRest
NextTour == Build(TourEdgeFiles) \/ Tour(ConfigsAny)
SpecTour == InitTour /\ [][NextTour]_vars

\* the loader on every kind of heading cell, then the rest of the build
InitHead ==
  /\ rows \in RowTables(IdPool, HeadTokens, TourMoves, TourSteps)
  /\ InitRest
NextHead == Build(NoEdgeFile) \/ Tour(ConfigsPresent)
SpecHead == InitHead /\ [][NextHead]_vars

\* the positioner on every kind of moveHeading cell
InitMove ==
  /\ rows \in RowTables(IdPool, MoveHeadings, MoveTokens, TourSteps)
  /\ InitRest
NextMove == Build(NoEdgeFile) \/ Tour(ConfigsPresent)
SpecMove == InitMove /\ [][NextMove]_vars

\* the graph builder on scenes that share grid points and buckets
InitProx ==
  /\ rows \in RowTables(IdPool, ProxHeadings, ProxMoves, ProxSteps)
  /\ InitRest
NextProx == Build(NoEdgeFile) \/ Tour(ConfigsPresent)
SpecProx == InitProx /\ [][NextProx]_vars

\* the graph builder on a corridor walked north and south, with every pair
\* of manual and blocked edge files
InitDet ==
  /\ rows \in RowTables(IdPool, GraphHeadings, TourMoves, GraphSteps)
  /\ InitRest
NextDet == Build(EdgeFiles)
SpecDet == InitDet /\ [][NextDet]_vars

\* the built files served to the page: a corridor due north, with or without
\* a manual and a blocked row between its first two scenes
WebHeadings == {<<"N">>}

InitWeb ==
  /\ rows \in RowTables(TourIds, WebHeadings, TourMoves, TourSteps)
  /\ InitRest
NextWeb == Build(TourEdgeFiles) \/ Tour(ConfigsPresent) \/ Web
SpecWeb == InitWeb /\ [][NextWeb]_vars

\* snapToGrid alone, on every value of a range and two grid steps
SnapSteps == {GRID_STEP, 2}

InitSnap ==
  /\ sv \in (-MaxSnap)..MaxSnap
  /\ sstep \in SnapSteps
  /\ sr = <<>>
  /\ pc = "snap"
  /\ rows = <<>> /\ scenes = <<>> /\ edgesCsv = <<>>
  /\ i = 0 /\ x = 0 /\ y = 0
  /\ nodes = <<>> /\ nodesCsv = <<>>
  /\ neigh = EmptyMap /\ manualEdges = <<>> /\ blockedEdges = <<>>
  /\ k = 0 /\ proxLog = <<>>
  /\ TourRest
  /\ WebRest

SnapValue ==
  /\ pc = "snap"
  /\ sr = <<>>
  /\ sr' = <<snapToGrid(sv, sstep)>>
  /\ UNCHANGED <<pc, rows, scenes, edgesCsv, i, x, y, nodes, nodesCsv, neigh,
                 manualEdges, blockedEdges, k, proxLog, sv, sstep, tourVars, webVars>>

NextSnap == SnapValue
SpecSnap == InitSnap /\ [][NextSnap]_vars

(* ================================ claims ============================ *)
Ids == SceneIdSet(scenes)
\* the adjacency is final: the blocked step has run
Finished == pc \in {"tour", "done"}

\* what the claims say about a run, stated on the final state
IsConsecutive(a, b) ==
  \E j \in 1..(Len(scenes) - 1) :
     \/ scenes[j].id = a /\ scenes[j + 1].id = b
     \/ scenes[j].id = b /\ scenes[j + 1].id = a

InManual(a, b) ==
  \E j \in 1..Len(manualEdges) :
     \/ manualEdges[j] = Edge(a, b)
     \/ manualEdges[j] = Edge(b, a)

AcceptedBy(a, b) ==
  \E j \in 1..Len(proxLog) :
     /\ proxLog[j].aId = a
     /\ \E m \in 1..Len(proxLog[j].accepted) : proxLog[j].accepted[m].bId = b

RefersUnknown(e) == e.from \notin Ids \/ e.to \notin Ids

\* the four steps run on given edge lists; the proximity pass reads only the
\* scene and node tables, so the winners it accepts are those of proxLog
RECURSIVE proximityFrom(_, _)
proximityFrom(n, j) ==
  IF j > Len(proxLog) THEN n
  ELSE proximityFrom(addAccepted(n, proxLog[j].aId, proxLog[j].accepted, 1), j + 1)

GraphOf(manual, blocked) ==
  blockedStep(
    proximityFrom(manualStep(sequentialStep(EmptyMap, scenes, 1), manual, scenes, 1), 1),
    blocked, 1)

\* C1: after the four steps the adjacency is symmetric: for all scene ids
\* a and b, b is a neighbor of a exactly when a is a neighbor of b.
C1_Symmetric ==
  Finished =>
    \A a \in Ids \cup DOMAIN neigh :
      \A b \in Ids \cup DOMAIN neigh :
        (b \in neighborsOf(neigh, a)) <=> (a \in neighborsOf(neigh, b))

\* a finished build in which manual, proximity and blocked steps all acted:
\* a blocked row removed a sequential link, a manual row was inserted and
\* a proximity winner was accepted
C1_Witness ==
  /\ Finished
  /\ Len(scenes) = 3
  /\ \E j \in 1..Len(blockedEdges) :
        IsConsecutive(blockedEdges[j].from, blockedEdges[j].to)
  /\ \E j \in 1..Len(manualEdges) : ~RefersUnknown(manualEdges[j])
  /\ \E a, b \in Ids : AcceptedBy(a, b) /\ b \in neighborsOf(neigh, a)

\* C2: every blocked pair (from, to) is absent in both directions from the
\* final adjacency, whichever step had inserted it.
C2_BlockedAbsolute ==
  Finished =>
    \A j \in 1..Len(blockedEdges) :
      /\ blockedEdges[j].to \notin neighborsOf(neigh, blockedEdges[j].from)
      /\ blockedEdges[j].from \notin neighborsOf(neigh, blockedEdges[j].to)

\* a blocked pair that is a sequential edge, a manual edge and an accepted
\* proximity edge at once
C2_Witness ==
  /\ Finished
  /\ \E j \in 1..Len(blockedEdges) :
        LET e == blockedEdges[j]
        IN /\ e.from # e.to
           /\ IsConsecutive(e.from, e.to)
           /\ InManual(e.from, e.to)
           /\ AcceptedBy(e.from, e.to) \/ AcceptedBy(e.to, e.from)

\* C3: the final adjacency has no self-loop: no scene id is a member of its
\* own neighbor set, also when a manual row declares (a, a).
C3_NoSelfLoop ==
  Finished => \A a \in DOMAIN neigh : a \notin neigh[a]

\* C4: rows of the manual and blocked lists that name an id absent from the
\* scene table have no effect: every key and member of the final adjacency
\* is a scene id, and the adjacency is the one built without those rows.
C4_UnknownDropped ==
  Finished =>
    /\ DOMAIN neigh \subseteq Ids
    /\ \A a \in DOMAIN neigh : neigh[a] \subseteq Ids
    /\ neigh = GraphOf(SelectSeq(manualEdges, LAMBDA e : ~RefersUnknown(e)),
                       SelectSeq(blockedEdges, LAMBDA e : ~RefersUnknown(e)))

\* a finished build whose manual list and blocked list both hold a row with
\* an unknown id beside a known one
C4_Witness ==
  /\ Finished
  /\ Len(scenes) >= 2
  /\ \E j \in 1..Len(manualEdges) :
        manualEdges[j].from \in Ids /\ manualEdges[j].to \notin Ids
  /\ \E j \in 1..Len(blockedEdges) :
        blockedEdges[j].from \notin Ids /\ blockedEdges[j].to \in Ids

\* C5: the scenes are in the order of the numeric value of their ids; the
\* sequential step links exactly the consecutive pairs, each both ways, and
\* edges.csv holds exactly those pairs, one row each.
C5_SequentialConsecutive ==
  /\ pc \notin {"start", "aborted"} =>
       /\ Len(scenes) = Len(rows)
       /\ Ids = {rows[j].id : j \in 1..Len(rows)}
       /\ \A j \in 1..(Len(scenes) - 1) :
            Number(scenes[j].id)[1] <= Number(scenes[j + 1].id)[1]
  /\ pc = "manual" =>
       \A a \in Ids \cup DOMAIN neigh :
         \A b \in Ids \cup DOMAIN neigh :
           (b \in neighborsOf(neigh, a)) <=> IsConsecutive(a, b)
  /\ edgesCsv # <<>> =>
       /\ Len(edgesCsv) = 1 + (IF Len(scenes) = 0 THEN 0 ELSE Len(scenes) - 1)
       /\ \A j \in 1..(Len(scenes) - 1) :
            edgesCsv[j + 1] = <<scenes[j].id, scenes[j + 1].id>>

\* the file lists "10" before "9" and a third scene; after the sequential
\* step "10" is the last scene and is linked to "9"
C5_Witness ==
  /\ pc = "manual"
  /\ Len(rows) = 3
  /\ rows[1].id = <<"1", "0">>
  /\ rows[2].id = <<"9">>
  /\ scenes[3].id = <<"1", "0">>
  /\ <<"9">> \in neighborsOf(neigh, <<"1", "0">>)
  /\ Len(edgesCsv) = 3

\* the bucket of scene t as seen from scene s, from the node table
BucketSeen(s, t) ==
  nearestCardinalBucket(
    normalize180(bearingDeg(byId(nodes, s), byId(nodes, t)) - byId(nodes, s).headingDeg))

\* front <-> back, left <-> right
Opposite(bucket) == normalize180(bucket + 180)

Reciprocal(a, b) ==
  /\ BucketSeen(a, b) # Null
  /\ BucketSeen(b, a) # Null
  /\ BucketSeen(b, a)[1] = Opposite(BucketSeen(a, b)[1])

\* C6: every edge (a, b) the proximity pass of scene a accepts or inserts
\* has the bucket of a seen from b defined and opposite to the bucket of b
\* seen from a.
C6_Reciprocity ==
  [][(pc = "proximity" /\ k <= Len(scenes)) =>
       LET a == scenes[k].id
           acc == proxLog'[Len(proxLog')].accepted
       IN /\ \A m \in 1..Len(acc) : Reciprocal(a, acc[m].bId)
          /\ \A b \in neighborsOf(neigh', a) \ neighborsOf(neigh, a) : Reciprocal(a, b)
          /\ \A c \in DOMAIN neigh' \ {a} :
               \A b \in neigh'[c] \ neighborsOf(neigh, c) : b = a /\ Reciprocal(a, c)
    ]_vars

\* some scene accepted a winner of a side bucket, and some scene dropped a
\* winner on the reciprocity test
C6_Witness ==
  /\ Finished
  /\ \E j \in 1..Len(proxLog) :
        \E m \in 1..Len(proxLog[j].accepted) :
           proxLog[j].accepted[m].bucket \in {90, -90}
  /\ \E j \in 1..Len(proxLog) : Len(proxLog[j].accepted) < Len(proxLog[j].winners)

\* C7: while scene a is processed, its winners are at most
\* MAX_PROX_LINKS_PER_NODE and lie in pairwise different buckets relative to
\* a's heading; the accepted ones are among them.
C7_BucketExclusive ==
  pc = "proximity" =>
    \A j \in 1..Len(proxLog) :
      LET a == proxLog[j].aId
          w == proxLog[j].winners
          acc == proxLog[j].accepted
      IN /\ Len(w) <= MAX_PROX_LINKS_PER_NODE
         /\ \A m \in 1..Len(w) :
              /\ BucketSeen(a, w[m].bId) # Null
              /\ BucketSeen(a, w[m].bId)[1] \in {0, 90, 180, -90}
         /\ \A m, n \in 1..Len(w) :
              m < n => BucketSeen(a, w[m].bId) # BucketSeen(a, w[n].bId)
         /\ \A m \in 1..Len(acc) : \E n \in 1..Len(w) : acc[m] = w[n]
         /\ \A m, n \in 1..Len(acc) : m < n => acc[m].bucket # acc[n].bucket

\* a scene with two candidates within the radius in one bucket
C7_Witness ==
  \E j \in 1..Len(proxLog) :
    /\ proxLog[j].winners # <<>>
    /\ \E b, c \in Ids \ {proxLog[j].aId} :
         /\ b # c
         /\ ~beyondRadius(dist2(byId(nodes, proxLog[j].aId), byId(nodes, b)))
         /\ ~beyondRadius(dist2(byId(nodes, proxLog[j].aId), byId(nodes, c)))
         /\ BucketSeen(proxLog[j].aId, b) # Null
         /\ BucketSeen(proxLog[j].aId, b) = BucketSeen(proxLog[j].aId, c)

\* C8: the first scene is at the origin and the unsnapped step from scene
\* j-1 to scene j has the direction of scene j-1's moveHeadingDeg (else its
\* headingDeg) and the length of scene j's own stepMeters.
C8_StepOfDestination ==
  pc = "reckon" =>
    /\ nodes[1].x = 0 /\ nodes[1].y = 0
    /\ \A j \in 2..Len(nodes) :
         /\ nodes[j].x - nodes[j - 1].x =
              scenes[j].stepMeters * SinMilli(moveDegOf(scenes[j - 1]))
         /\ nodes[j].y - nodes[j - 1].y =
              -(scenes[j].stepMeters * CosMilli(moveDegOf(scenes[j - 1])))

\* the unsnapped path: the sum of the steps up to scene j
RECURSIVE RawX(_)
RawX(j) ==
  IF j <= 1 THEN 0
  ELSE RawX(j - 1) + stepLenOf(scenes[j - 1], scenes[j]) * SinMilli(moveDegOf(scenes[j - 1]))

RECURSIVE RawY(_)
RawY(j) ==
  IF j <= 1 THEN 0
  ELSE RawY(j - 1) - stepLenOf(scenes[j - 1], scenes[j]) * CosMilli(moveDegOf(scenes[j - 1]))

\* the sum of the steps, each snapped on its own
RECURSIVE SteppedY(_)
SteppedY(j) ==
  IF j <= 1 THEN 0
  ELSE SteppedY(j - 1) +
       snapToGrid(-(stepLenOf(scenes[j - 1], scenes[j]) * CosMilli(moveDegOf(scenes[j - 1]))),
                  GRID_STEP)

AfterSnap == pc \in {"nodes", "sequential", "manual", "proximity", "tour", "done"}

\* C9: the grid snap is applied once, after the whole path: until then the
\* nodes hold the unsnapped sums, afterwards each coordinate is the snap of
\* the unsnapped sum, and the accumulators x, y always hold an unsnapped sum.
C9_SnapOnceAtEnd ==
  /\ pc = "reckon" =>
       /\ x = RawX(i - 1) /\ y = RawY(i - 1)
       /\ \A j \in 1..Len(nodes) : nodes[j].x = RawX(j) /\ nodes[j].y = RawY(j)
  /\ AfterSnap =>
       /\ x = RawX(Len(scenes)) /\ y = RawY(Len(scenes))
       /\ \A j \in 1..Len(nodes) :
            /\ nodes[j].x = snapToGrid(RawX(j), GRID_STEP)
            /\ nodes[j].y = snapToGrid(RawY(j), GRID_STEP)

\* a snapped path on which snapping each step would have ended elsewhere,
\* and whose accumulator is off the grid
C9_Witness ==
  /\ AfterSnap
  /\ Len(nodes) = 3
  /\ nodes[3].y # SteppedY(3)
  /\ y # snapToGrid(y, GRID_STEP)

\* C10: snapToGrid(v, step) is a multiple of step nearest to v; of two
\* equally near multiples it is the one farther from zero; it is odd in v;
\* with step 5: 7.5 -> 10, -7.5 -> -10, 7.49 -> 5.
C10_SnapHalfAway ==
  sr # <<>> =>
    LET r == sr[1]
        g == sstep * Milli
        Multiples == {m * g : m \in (-(MaxSnap \div g) - 1)..((MaxSnap \div g) + 1)}
    IN /\ r \in Multiples
       /\ \A q \in Multiples : Abs(r - sv) <= Abs(q - sv)
       /\ \A q \in Multiples : Abs(q - sv) = Abs(r - sv) => Abs(q) <= Abs(r)
       /\ snapToGrid(-sv, sstep) = -r
       /\ (sstep = 5 /\ sv = 7500) => r = 10000
       /\ (sstep = 5 /\ sv = -7500) => r = -10000
       /\ (sstep = 5 /\ sv = 7490) => r = 5000

\* -7.5 snapped with step 5 gave -10
C10_Witness == sr = <<-10000>> /\ sv = -7500 /\ sstep = 5

\* the rows of the end-to-end example: ids 1, 2, 3, headings N, N, E, no
\* moveHeading, stepMeters 5
ExampleRow(id, h) ==
  [id |-> id, filename |-> FileNameOf(id), heading |-> h, moveHeading |-> <<>>,
   stepMeters |-> <<"5">>]

IsExample ==
  rows = <<ExampleRow(<<"1">>, <<"N">>), ExampleRow(<<"2">>, <<"N">>),
           ExampleRow(<<"3">>, <<"E">>)>>

\* the emitted hotspots of the scene of id a that lead to the scene of id b
HotSpotsToward(a, b) ==
  LET hs == tourJson[1].scenes[byId(scenes, a).sceneKey].hotSpots
  IN SelectSeq(hs, LAMBDA h : h.sceneId = byId(scenes, b).sceneKey)

ExamplePositions ==
  /\ Len(nodes) = 3
  /\ nodes[1].x = 0 /\ nodes[1].y = 0
  /\ nodes[2].x = 0 /\ nodes[2].y = -5 * Milli
  /\ nodes[3].x = 0 /\ nodes[3].y = -10 * Milli

ExampleEdges ==
  edgesCsv = << <<"from", "to">>, << <<"1">>, <<"2">> >>, << <<"2">>, <<"3">> >> >>

\* C11 as stated: on ids 1, 2, 3 with headings N, N, E, no moveHeading and
\* stepMeters 5 the build gives positions (0,0), (0,-5), (0,-10), sequential
\* edges 1-2 and 2-3, and the hotspot of scene 2 toward scene 3 has yaw 90.
C11_YawNinety ==
  (IsExample /\ pc = "done") =>
    /\ ExamplePositions
    /\ ExampleEdges
    /\ Len(HotSpotsToward(<<"2">>, <<"3">>)) = 1
    /\ HotSpotsToward(<<"2">>, <<"3">>)[1].yaw = 90

\* C11 amended: same positions and sequential edges; scene 3 lies due north
\* of scene 2, so the hotspot of scene 2 toward scene 3 has yaw
\* normalize(0 - 0) = 0.
C11_YawZero ==
  (IsExample /\ pc = "done") =>
    /\ ExamplePositions
    /\ ExampleEdges
    /\ Len(HotSpotsToward(<<"2">>, <<"3">>)) = 1
    /\ HotSpotsToward(<<"2">>, <<"3">>)[1].yaw = 0

\* the example was built to the end, with no edge file
C11_Witness ==
  /\ IsExample
  /\ pc = "done"
  /\ manualEdges = <<>> /\ blockedEdges = <<>>
  /\ Len(tourJson[1].scenes[<<"s", "2">>].hotSpots) = 2

\* the build stopped in the loader: nothing was written
LoadAborted == pc = "aborted" /\ edgesCsv = <<>>

\* the points of the sixteen-point rose, in half degrees
RoseHalfDeg(tok) ==
  CASE tok = <<"N">> -> 0          [] tok = <<"N", "N", "E">> -> 45
    [] tok = <<"N", "E">> -> 90    [] tok = <<"E", "N", "E">> -> 135
    [] tok = <<"E">> -> 180        [] tok = <<"E", "S", "E">> -> 225
    [] tok = <<"S", "E">> -> 270   [] tok = <<"S", "S", "E">> -> 315
    [] tok = <<"S">> -> 360        [] tok = <<"S", "S", "W">> -> 405
    [] tok = <<"S", "W">> -> 450   [] tok = <<"W", "S", "W">> -> 495
    [] tok = <<"W">> -> 540        [] tok = <<"W", "N", "W">> -> 585
    [] tok = <<"N", "W">> -> 630   [] tok = <<"N", "N", "W">> -> 675
    [] OTHER -> -1

\* what the claim gives for a heading cell, in half degrees; -1 for a cell
\* that is neither a degree token nor a point of the rose
ClaimedHalfDeg(cell) ==
  LET tok == toUpperCase(cell)
  IN IF IsNumeric(tok) THEN 2 * (Number(tok)[1] % 360)
     ELSE RoseHalfDeg(tok)

RowOfScene(s) == CHOOSE r \in {rows[j] : j \in 1..Len(rows)} : r.id = s.id

\* C12: a degree token becomes its value reduced into [0, 360), a point of
\* the eight- or sixteen-point rose its degree value, in either case of
\* letters ("s" is 180, "225" is 225); any other heading cell, an empty one
\* too, stops the build in the loader and no scene gets a default heading.
C12_HeadingParser ==
  pc # "start" =>
    IF \A j \in 1..Len(rows) : ClaimedHalfDeg(rows[j].heading) >= 0
    THEN /\ ~LoadAborted
         /\ Len(scenes) = Len(rows)
         /\ \A j \in 1..Len(scenes) :
              2 * scenes[j].headingDeg = ClaimedHalfDeg(RowOfScene(scenes[j]).heading)
    ELSE LoadAborted /\ scenes = <<>>

DueNorth(cell) == toUpperCase(cell) \in {<<"N">>, <<"0">>}

\* C13: a blank moveHeading is kept as null and a moveHeading of due north
\* ("N" or "0") as 0: the step that leaves such a scene goes along 0 degrees
\* whatever its headingDeg, and the step follows headingDeg (moveHeadingDeg
\* is null) only when the moveHeading cell is blank.
C13_AbsentNotZero ==
  pc = "reckon" =>
    \A j \in 2..Len(nodes) :
      LET prev == scenes[j - 1]
          cell == RowOfScene(prev).moveHeading
      IN /\ (prev.moveHeadingDeg = Null) <=> (cell = <<>>)
         /\ DueNorth(cell) =>
              /\ prev.moveHeadingDeg = Num(0)
              /\ nodes[j].x - nodes[j - 1].x = 0
              /\ nodes[j].y - nodes[j - 1].y = -(prev.stepMeters * Milli)

\* the emitted record of a scene
Emitted(s) == tourJson[1].scenes[s.sceneKey]

KeyOfId(id) == byId(scenes, id).sceneKey

\* bearing(s -> t) - heading(s) brought into (-180, 180]
RawYaw(s, b) ==
  LET diff == bearingDeg(byId(nodes, s.id), byId(nodes, b)) - s.headingDeg
  IN CHOOSE v \in (-179)..180 : (v - diff) % 360 = 0

\* the angle between two directions, in 0..180
AngleBetween(u, v) ==
  LET m == (u - v) % 360 IN IF m > 180 THEN 360 - m ELSE m

BucketCenters == {0, 90, -90, 180}

\* the yaw the claim gives: the bucket center within TURN_TOL, else the raw yaw
ClaimedYaw(s, b) ==
  LET near == {c \in BucketCenters : AngleBetween(RawYaw(s, b), c) <= TURN_TOL}
  IN IF SNAP_HOTSPOT_YAW /\ near # {} THEN CHOOSE c \in near : TRUE ELSE RawYaw(s, b)

\* C14: in the emitted tour, the hotspot list of every scene holds exactly one
\* hotspot for each member of its final neighbor set and nothing else (an
\* empty set gives an empty list); every yaw lies in (-180, 180] and is
\* normalize(bearing(s -> t) - heading(s)), replaced by the bucket center
\* among 0, 90, -90, 180 that is within the tolerance when there is one.
C14_HotspotsOfNeighbors ==
  pc = "done" =>
    \A j \in 1..Len(scenes) :
      LET s == scenes[j]
          hot == Emitted(s).hotSpots
          nb == neighborsOf(neigh, s.id)
      IN /\ Len(hot) = Cardinality(nb)
         /\ \A b \in nb :
              \E m \in 1..Len(hot) :
                 /\ hot[m].sceneId = KeyOfId(b)
                 /\ \A m2 \in 1..Len(hot) : hot[m2].sceneId = KeyOfId(b) => m2 = m
                 /\ hot[m].yaw > -180 /\ hot[m].yaw <= 180
                 /\ hot[m].yaw = ClaimedYaw(s, b)

\* an emitted tour with a scene without neighbors and an empty list, a
\* hotspot whose yaw was moved to its bucket center and a hotspot whose yaw
\* is in no bucket
C14_Witness ==
  /\ pc = "done"
  /\ \E j \in 1..Len(scenes) :
        neighborsOf(neigh, scenes[j].id) = {} /\ Emitted(scenes[j]).hotSpots = <<>>
  /\ \E j \in 1..Len(scenes) :
        \E b \in neighborsOf(neigh, scenes[j].id) :
           /\ RawYaw(scenes[j], b) # ClaimedYaw(scenes[j], b)
           /\ \E m \in 1..Len(Emitted(scenes[j]).hotSpots) :
                 /\ Emitted(scenes[j]).hotSpots[m].sceneId = KeyOfId(b)
                 /\ Emitted(scenes[j]).hotSpots[m].yaw = ClaimedYaw(scenes[j], b)
  /\ \E j \in 1..Len(scenes) :
        \E m \in 1..Len(Emitted(scenes[j]).hotSpots) :
           Emitted(scenes[j]).hotSpots[m].yaw \notin BucketCenters

\* a manifest row without id or filename, or with a heading that does not parse
BadRow(r) == r.id = <<>> \/ r.filename = <<>> \/ headingToDeg(r.heading) = NaN

ConfigMissing == \E m \in 1..Len(cfgLog) : ~cfgLog[m].present

\* C15: no partial output of a failing stage.  With a bad manifest row,
\* edges.csv, nodes.csv and tour.json are never written.  With a config.json
\* missing for some scene, tour.json is never written, also not for the
\* scenes handled before that one, the build has stopped, and edges.csv and
\* nodes.csv stay as written.
C15_NoPartialOutput ==
  /\ (\E j \in 1..Len(rows) : BadRow(rows[j])) =>
       /\ edgesCsv = <<>> /\ nodesCsv = <<>> /\ tourJson = <<>>
       /\ pc \in {"start", "aborted"}
  /\ ConfigMissing =>
       /\ pc = "aborted"
       /\ tourJson = <<>>
       /\ Len(edgesCsv) = Len(scenes)
       /\ Len(nodesCsv) = Len(scenes) + 1

\* the config.json of the third scene is missing after two scenes were put
\* into scenesObj
C15_Witness ==
  /\ pc = "aborted"
  /\ Len(cfgLog) = 3
  /\ cfgLog[1].present /\ cfgLog[2].present /\ ~cfgLog[3].present
  /\ Cardinality(DOMAIN scenesObj) = 2
  /\ tourJson = <<>>
  /\ nodesCsv # <<>>

\* the scenes other than a within LINK_RADIUS of a that a sees in the bucket
CandsIn(a, bucket) ==
  {b \in Ids \ {a} :
     /\ ~beyondRadius(dist2(byId(nodes, a), byId(nodes, b)))
     /\ BucketSeen(a, b) = Num(bucket)}

PlaceOf(id) == CHOOSE j \in 1..Len(scenes) : scenes[j].id = id

\* b is no farther from a than c, and comes first in scene order when as far
Before(a, b, c) ==
  LET db == dist2(byId(nodes, a), byId(nodes, b))
      dc == dist2(byId(nodes, a), byId(nodes, c))
  IN db < dc \/ (db = dc /\ PlaceOf(b) <= PlaceOf(c))

NearestIn(a, bucket) ==
  CHOOSE b \in CandsIn(a, bucket) : \A c \in CandsIn(a, bucket) : Before(a, b, c)

\* C19: in the proximity pass of scene a, the winner of a bucket is the
\* candidate within LINK_RADIUS nearest to a in that bucket, the first in
\* scene order among equally near ones, and a bucket without candidate has no
\* winner; every neighbor the pass gives to a is such a nearest candidate
\* that passes the reciprocity test, so a bucket whose nearest candidate
\* fails the test gives a no neighbor.
C19_NearestOnly ==
  [][(pc = "proximity" /\ k <= Len(scenes)) =>
       LET a == scenes[k].id
           e == proxLog'[Len(proxLog')]
       IN /\ e.aId = a
          /\ \A bucket \in {0, 90, -90, 180} :
               LET w == SelectSeq(e.winners, LAMBDA v : v.bucket = bucket)
                   acc == SelectSeq(e.accepted, LAMBDA v : v.bucket = bucket)
               IN IF CandsIn(a, bucket) = {}
                  THEN w = <<>> /\ acc = <<>>
                  ELSE /\ Len(w) = 1
                       /\ w[1].bId = NearestIn(a, bucket)
                       /\ acc = (IF Reciprocal(a, NearestIn(a, bucket)) THEN w ELSE <<>>)
          /\ \A m \in 1..Len(e.winners) : e.winners[m].bucket \in {0, 90, -90, 180}
          /\ \A b \in neighborsOf(neigh', a) \ neighborsOf(neigh, a) :
               \E bucket \in {0, 90, -90, 180} :
                  /\ CandsIn(a, bucket) # {}
                  /\ b = NearestIn(a, bucket)
                  /\ Reciprocal(a, b)
    ]_vars

\* a pass in which the nearest candidate of a bucket failed the reciprocity
\* test while a farther candidate of the same bucket would have passed it,
\* and nothing of that bucket was accepted
C19_Witness ==
  /\ \E j \in 1..Len(proxLog) :
        LET a == proxLog[j].aId
        IN \E bucket \in {0, 90, -90, 180} :
             /\ CandsIn(a, bucket) # {}
             /\ ~Reciprocal(a, NearestIn(a, bucket))
             /\ \E c \in CandsIn(a, bucket) :
                   /\ dist2(byId(nodes, a), byId(nodes, c)) >
                        dist2(byId(nodes, a), byId(nodes, NearestIn(a, bucket)))
                   /\ Reciprocal(a, c)
                   /\ c \notin neighborsOf(neigh, a)
             /\ \A m \in 1..Len(proxLog[j].accepted) :
                   proxLog[j].accepted[m].bucket # bucket
  /\ pc = "tour"

InBlocked(a, b) ==
  \E j \in 1..Len(blockedEdges) :
     \/ blockedEdges[j] = Edge(a, b)
     \/ blockedEdges[j] = Edge(b, a)

\* the neighbor sets as a function of the scene table, the node table and
\* the two edge lists: near[a, b] is the bucket in which a sees b within
\* LINK_RADIUS, prox[a, b] says that b is the nearest scene of its bucket
\* around a and sees a in the opposite bucket
NeighborsFrom ==
  LET place == [a \in Ids |-> PlaceOf(a)]
      d2 == [a \in Ids, b \in Ids |-> dist2(nodes[place[a]], nodes[place[b]])]
      near == [a \in Ids, b \in Ids |->
                 IF a = b \/ beyondRadius(d2[a, b]) THEN Null ELSE BucketSeen(a, b)]
      prox == [a \in Ids, b \in Ids |->
                 /\ near[a, b] # Null
                 /\ \A c \in Ids :
                      near[a, c] = near[a, b] =>
                        \/ d2[a, b] < d2[a, c]
                        \/ d2[a, b] = d2[a, c] /\ place[b] <= place[c]
                 /\ near[b, a] = Num(Opposite(near[a, b][1]))]
  IN [a \in Ids |->
        {b \in Ids :
           /\ IsConsecutive(a, b) \/ InManual(a, b) \/ prox[a, b] \/ prox[b, a]
           /\ ~InBlocked(a, b)}]

\* C16: the neighbor set of every scene id at the end of the graph build is
\* one fixed function of the scene table, the node positions and the manual
\* and blocked lists, so two runs on the same four inputs end with the same
\* neighbor set for every scene id.
C16_FunctionOfInputs ==
  Finished =>
    LET expected == NeighborsFrom
    IN /\ DOMAIN neigh \subseteq Ids
       /\ \A a \in Ids : neighborsOf(neigh, a) = expected[a]

\* a finished graph to which a manual row, a blocked row and a proximity
\* link between scenes that are not consecutive all contributed
C16_Witness ==
  /\ Finished
  /\ Len(scenes) = 3
  /\ \E j \in 1..Len(manualEdges) : ~RefersUnknown(manualEdges[j])
  /\ \E j \in 1..Len(blockedEdges) : ~RefersUnknown(blockedEdges[j])
  /\ \E a, b \in Ids :
        /\ AcceptedBy(a, b)
        /\ ~IsConsecutive(a, b)
        /\ ~InManual(a, b)
        /\ b \in neighborsOf(neigh, a)

(* ------------------------- the page in the browser ------------------ *)
\* the final adjacency set of the scene the viewer shows under sceneKey
ExitsOfShown(sceneKey) ==
  UNION {neighborsOf(neigh, scenes[j].id) :
           j \in {h \in 1..Len(scenes) : scenes[h].sceneKey = sceneKey}}

\* C17: once the direction marker listens to the viewer, every change to a
\* scene whose final adjacency set is empty leaves the marker and its trail
\* hidden when the scenechange listeners have run
C17_MarkerHiddenAtDeadEnd ==
  [][("marker" \in handlers /\ viewerScene' # viewerScene
        /\ ExitsOfShown(viewerScene'[1]) = {})
       => (~marker'.visible /\ ~marker'.trail)]_vars

\* the four fetches of a component have all settled
Settled(fetch) == fetch # <<>> /\ \A f \in Files : fetch[f] \in {"ok", "empty"}

\* the listeners that read the minimap's nodes and edges, and the one that
\* reads the direction marker's
MinimapListeners == {"click", "resize", "selected"}
MarkerListeners == {"marker"}

====
